---- MODULE Spec2Model ----
\* Model of package loadgencfg (internal/loadgen/config/config.go): the RateFlag
\* parser/formatter and the flag/environment resolution of the global Config.
\*
\* Text is a sequence of one-character strings, so that splitting, prefixing and
\* parsing work on characters as the Go code does.  Durations are counted in
\* milliseconds (time.Duration counts nanoseconds); every duration the bounded
\* inputs can denote is a whole number of milliseconds.
EXTENDS Integers, Sequences, FiniteSets, TLC

\* ---------------------------------------------------------------- bounds
MaxLen == 5
MaxArgs == 2

\* ---------------------------------------------------------------- text helpers
Digits == {"0", "1", "2", "3", "4", "5", "6", "7", "8", "9"}

IsDigit(c) == c \in Digits

DigitVal(c) ==
  CASE c = "0" -> 0 [] c = "1" -> 1 [] c = "2" -> 2 [] c = "3" -> 3 [] c = "4" -> 4
    [] c = "5" -> 5 [] c = "6" -> 6 [] c = "7" -> 7 [] c = "8" -> 8 [] c = "9" -> 9

Drop(t, n) == SubSeq(t, n + 1, Len(t))

Take(t, n) == SubSeq(t, 1, n)

RECURSIVE Pow10(_)
Pow10(n) == IF n = 0 THEN 1 ELSE 10 * Pow10(n - 1)

\* value of a run of decimal digits (0 for the empty run)
RECURSIVE DecVal(_)
DecVal(t) == IF t = <<>> THEN 0 ELSE 10 * DecVal(Take(t, Len(t) - 1)) + DigitVal(t[Len(t)])

\* decimal text of a natural number
RECURSIVE FmtNat(_)
FmtNat(n) == IF n < 10 THEN <<SubSeq(<<"0","1","2","3","4","5","6","7","8","9">>, n + 1, n + 1)[1]>>
             ELSE FmtNat(n \div 10) \o FmtNat(n % 10)

\* fmt's %d
FmtInt(n) == IF n < 0 THEN <<"-">> \o FmtNat(0 - n) ELSE FmtNat(n)

\* strings.Cut(s, sep) for a one-character separator: split at the first sep
Cut(t, sep) ==
  IF \E i \in 1..Len(t) : t[i] = sep
  THEN LET i == CHOOSE i \in 1..Len(t) : t[i] = sep /\ \A j \in 1..(i - 1) : t[j] # sep
       IN [before |-> Take(t, i - 1), after |-> Drop(t, i), ok |-> TRUE]
  ELSE [before |-> t, after |-> <<>>, ok |-> FALSE]

\* strconv.Atoi: optional sign, then one or more decimal digits
Atoi(t) ==
  LET signed == t # <<>> /\ t[1] \in {"+", "-"}
      body == IF signed THEN Tail(t) ELSE t
  IN IF body = <<>> \/ \E i \in 1..Len(body) : ~IsDigit(body[i])
     THEN [ok |-> FALSE, val |-> 0]
     ELSE [ok |-> TRUE, val |-> IF signed /\ t[1] = "-" THEN 0 - DecVal(body) ELSE DecVal(body)]

\* number of leading characters of t that satisfy the digit test
RECURSIVE LeadingDigits(_)
LeadingDigits(t) == IF t # <<>> /\ IsDigit(t[1]) THEN 1 + LeadingDigits(Tail(t)) ELSE 0

\* number of leading characters of t up to the next '.' or digit (the unit)
RECURSIVE UnitLen(_)
UnitLen(t) == IF t # <<>> /\ t[1] # "." /\ ~IsDigit(t[1]) THEN 1 + UnitLen(Tail(t)) ELSE 0

\* time's unitMap, in milliseconds (the entries that are whole milliseconds)
unitMap(u) ==
  CASE u = <<"s">> -> 1000
    [] u = <<"m", "s">> -> 1
    [] u = <<"m">> -> 60000
    [] u = <<"h">> -> 3600000
    [] OTHER -> 0

DurFail == [ok |-> FALSE, val |-> 0]

\* the component loop of time.ParseDuration: [0-9]*(\.[0-9]*)?[a-z]+ repeated
RECURSIVE ParseDurationLoop(_, _)
ParseDurationLoop(t, d) ==
  IF t = <<>> THEN [ok |-> TRUE, val |-> d]
  ELSE IF ~(t[1] = "." \/ IsDigit(t[1])) THEN DurFail
  ELSE LET n1 == LeadingDigits(t)
           v == DecVal(Take(t, n1))
           t1 == Drop(t, n1)
           hasDot == t1 # <<>> /\ t1[1] = "."
           t2 == IF hasDot THEN Tail(t1) ELSE t1
           n2 == IF hasDot THEN LeadingDigits(t2) ELSE 0
           f == DecVal(Take(t2, n2))
           t3 == Drop(t2, n2)
           ul == UnitLen(t3)
           unit == unitMap(Take(t3, ul))
       IN IF n1 = 0 /\ n2 = 0 THEN DurFail
          ELSE IF ul = 0 THEN DurFail
          ELSE IF unit = 0 THEN DurFail
          ELSE ParseDurationLoop(Drop(t3, ul), d + v * unit + ((f * unit) \div Pow10(n2)))

\* time.ParseDuration: [-+]?(component)+, or a bare "0"
ParseDuration(t) ==
  LET signed == t # <<>> /\ t[1] \in {"+", "-"}
      body == IF signed THEN Tail(t) ELSE t
      r == ParseDurationLoop(body, 0)
  IN IF body = <<"0">> THEN [ok |-> TRUE, val |-> 0]
     ELSE IF body = <<>> THEN DurFail
     ELSE IF ~r.ok THEN DurFail
     ELSE IF signed /\ t[1] = "-" THEN [ok |-> TRUE, val |-> 0 - r.val]
     ELSE r

\* the fraction digits of time.Duration.String: ms below a second, without
\* trailing zeros, and nothing when the fraction is zero
FmtFrac(ms) ==
  IF ms = 0 THEN <<>>
  ELSE IF ms % 100 = 0 THEN <<".">> \o FmtNat(ms \div 100)
  ELSE IF ms % 10 = 0 THEN <<".">> \o FmtNat(ms \div 100) \o FmtNat((ms \div 10) % 10)
  ELSE <<".">> \o FmtNat(ms \div 100) \o FmtNat((ms \div 10) % 10) \o FmtNat(ms % 10)

\* time.Duration.String
DurationString(d) ==
  LET u == IF d < 0 THEN 0 - d ELSE d
      sign == IF d < 0 THEN <<"-">> ELSE <<>>
      secs == u \div 1000
      mins == secs \div 60
      hours == mins \div 60
      sPart == FmtNat(secs % 60) \o FmtFrac(u % 1000) \o <<"s">>
      mPart == IF mins > 0 THEN FmtNat(mins % 60) \o <<"m">> ELSE <<>>
      hPart == IF hours > 0 THEN FmtNat(hours) \o <<"h">> ELSE <<>>
  IN IF d = 0 THEN <<"0", "s">>
     ELSE IF u < 1000 THEN sign \o FmtNat(u) \o <<"m", "s">>
     ELSE sign \o hPart \o mPart \o sPart

\* ---------------------------------------------------------------- RateFlag
\* the zero value of RateFlag
ZeroRate == [Burst |-> 0, Interval |-> 0]

\* String with the two operands of Sprintf exchanged
RateFlagString_Swapped(f) == DurationString(f.Interval) \o <<"/">> \o FmtInt(f.Burst)

\* func (f *RateFlag) String(): fmt.Sprintf("%d/%s", f.Burst, f.Interval)
RateFlagString(f) == FmtInt(f.Burst) \o <<"/">> \o DurationString(f.Interval)

\* Set storing Burst as soon as it is parsed, before the interval is looked at
RateFlagSet_EarlyStore(f, s) ==
  LET c == Cut(s, "/")
      before == c.before
      burst == Atoi(before)
      after == IF ~(IsDigit(c.after[1])) THEN <<"1">> \o c.after ELSE c.after
      interval == ParseDuration(after)
  IN IF ~c.ok \/ before = <<>> \/ c.after = <<>> THEN [f |-> f, err |-> "InvalidFormat"]
     ELSE IF ~burst.ok THEN [f |-> f, err |-> "InvalidBurst"]
     ELSE IF ~interval.ok THEN [f |-> [f EXCEPT !.Burst = burst.val], err |-> "InvalidInterval"]
     ELSE IF interval.val <= 0
          THEN [f |-> [f EXCEPT !.Burst = burst.val], err |-> "NonPositiveInterval"]
     ELSE [f |-> [Burst |-> burst.val, Interval |-> interval.val], err |-> "nil"]

\* Set without the "1" put in front of an interval that starts with a non-digit
RateFlagSet_NoPrefix(f, s) ==
  LET c == Cut(s, "/")
      before == c.before
      burst == Atoi(before)
      interval == ParseDuration(c.after)
  IN IF ~c.ok \/ before = <<>> \/ c.after = <<>> THEN [f |-> f, err |-> "InvalidFormat"]
     ELSE IF ~burst.ok THEN [f |-> f, err |-> "InvalidBurst"]
     ELSE IF ~interval.ok THEN [f |-> f, err |-> "InvalidInterval"]
     ELSE IF interval.val <= 0 THEN [f |-> f, err |-> "NonPositiveInterval"]
     ELSE [f |-> [Burst |-> burst.val, Interval |-> interval.val], err |-> "nil"]

\* Set without the test for an empty text before the '/'
RateFlagSet_EmptyBurst(f, s) ==
  LET c == Cut(s, "/")
      before == c.before
      burst == Atoi(before)
      after == IF ~(IsDigit(c.after[1])) THEN <<"1">> \o c.after ELSE c.after
      interval == ParseDuration(after)
  IN IF ~c.ok \/ c.after = <<>> THEN [f |-> f, err |-> "InvalidFormat"]
     ELSE IF ~burst.ok THEN [f |-> f, err |-> "InvalidBurst"]
     ELSE IF ~interval.ok THEN [f |-> f, err |-> "InvalidInterval"]
     ELSE IF interval.val <= 0 THEN [f |-> f, err |-> "NonPositiveInterval"]
     ELSE [f |-> [Burst |-> burst.val, Interval |-> interval.val], err |-> "nil"]

\* func (f *RateFlag) Set(s string) error: the flag after the call and the
\* kind of the error returned ("nil" for success)
RateFlagSet(f, s) ==
  LET c == Cut(s, "/")
      before == c.before
      burst == Atoi(before)
      after == IF ~(IsDigit(c.after[1])) THEN <<"1">> \o c.after ELSE c.after
      interval == ParseDuration(after)
  IN IF ~c.ok \/ before = <<>> \/ c.after = <<>> THEN [f |-> f, err |-> "InvalidFormat"]
     ELSE IF ~burst.ok THEN [f |-> f, err |-> "InvalidBurst"]
     ELSE IF ~interval.ok THEN [f |-> f, err |-> "InvalidInterval"]
     ELSE IF interval.val <= 0 THEN [f |-> f, err |-> "NonPositiveInterval"]
     ELSE [f |-> [Burst |-> burst.val, Interval |-> interval.val], err |-> "nil"]

\* ---------------------------------------------------------------- values of the flags
\* strconv.ParseBool
ParseBool(t) ==
  IF t \in {<<"1">>, <<"t">>, <<"T">>, <<"t","r","u","e">>, <<"T","R","U","E">>, <<"T","r","u","e">>}
  THEN [ok |-> TRUE, val |-> TRUE]
  ELSE IF t \in {<<"0">>, <<"f">>, <<"F">>, <<"f","a","l","s","e">>, <<"F","A","L","S","E">>,
                 <<"F","a","l","s","e">>}
  THEN [ok |-> TRUE, val |-> FALSE]
  ELSE [ok |-> FALSE, val |-> FALSE]

Letters == {"a", "b", "h", "p", "t"}

\* a nil *url.URL
NilURL == [nil |-> TRUE, Scheme |-> <<>>, Opaque |-> <<>>, Host |-> <<>>, Path |-> <<>>]

MkURL(scheme, opaque, host, path) ==
  [nil |-> FALSE, Scheme |-> scheme, Opaque |-> opaque, Host |-> host, Path |-> path]

\* net/url getScheme: the text up to the first ':' when only letters (and, after
\* the first character, digits, '+', '-', '.') precede it
RECURSIVE getScheme(_, _)
getScheme(t, i) ==
  IF i > Len(t) THEN [ok |-> TRUE, scheme |-> <<>>, rest |-> t]
  ELSE IF t[i] \in Letters THEN getScheme(t, i + 1)
  ELSE IF IsDigit(t[i]) \/ t[i] \in {"+", "-", "."}
       THEN IF i = 1 THEN [ok |-> TRUE, scheme |-> <<>>, rest |-> t] ELSE getScheme(t, i + 1)
  ELSE IF t[i] = ":"
       THEN IF i = 1 THEN [ok |-> FALSE, scheme |-> <<>>, rest |-> <<>>]
            ELSE [ok |-> TRUE, scheme |-> Take(t, i - 1), rest |-> Drop(t, i)]
  ELSE [ok |-> TRUE, scheme |-> <<>>, rest |-> t]

HasPrefix(t, p) == Len(t) >= Len(p) /\ Take(t, Len(p)) = p

\* net/url validOptionalPort on the text from the last ':' of the host
validOptionalPort(port) ==
  port = <<>> \/ (port[1] = ":" /\ \A i \in 2..Len(port) : IsDigit(port[i]))

\* net/url parseHost for hosts without brackets and escapes
HostOK(host) ==
  (\E i \in 1..Len(host) : host[i] = ":") =>
    LET i == CHOOSE i \in 1..Len(host) : host[i] = ":" /\ \A j \in (i + 1)..Len(host) : host[j] # ":"
    IN validOptionalPort(Drop(host, i - 1))

\* url.Parse for texts of letters, digits, '.', '+', '-', ':' and '/' (no query,
\* fragment, userinfo, escape or bracket)
ParseURL(t) ==
  LET g == getScheme(t, 1)
      rest == g.rest
      seg == Cut(rest, "/").before
      hasAuth == (g.scheme # <<>> \/ ~HasPrefix(rest, <<"/", "/", "/">>)) /\ HasPrefix(rest, <<"/", "/">>)
      a == Cut(Drop(rest, 2), "/")
      path == IF a.ok THEN <<"/">> \o a.after ELSE <<>>
  IN IF ~g.ok THEN [ok |-> FALSE, url |-> NilURL]
     ELSE IF ~HasPrefix(rest, <<"/">>) /\ g.scheme # <<>>
          THEN [ok |-> TRUE, url |-> MkURL(g.scheme, rest, <<>>, <<>>)]
     ELSE IF ~HasPrefix(rest, <<"/">>) /\ \E i \in 1..Len(seg) : seg[i] = ":"
          THEN [ok |-> FALSE, url |-> NilURL]
     ELSE IF hasAuth
          THEN IF HostOK(a.before)
               THEN [ok |-> TRUE, url |-> MkURL(g.scheme, <<>>, a.before, path)]
               ELSE [ok |-> FALSE, url |-> NilURL]
     ELSE [ok |-> TRUE, url |-> MkURL(g.scheme, <<>>, <<>>, rest)]

\* ---------------------------------------------------------------- texts used as inputs
DefaultServer ==
  <<"h","t","t","p",":","/","/","1","2","7",".","0",".","0",".","1",":","8","2","0","0">>

TxtFalse == <<"f","a","l","s","e">>

TxtTrue == <<"t","r","u","e">>

\* the characters of the rate texts
RateAlphabet == {"0", "1", "2", "5", ".", "-", "+", "s", "/"}

\* every text of at most MaxLen characters over RateAlphabet
RateInputs == UNION {[1..n -> RateAlphabet] : n \in 0..MaxLen}

\* the environment: a variable is unset, or set to a text (possibly empty)
EnvNames == {"ELASTIC_APM_SERVER_URL", "ELASTIC_APM_SECRET_TOKEN", "ELASTIC_APM_API_KEY",
             "ELASTIC_APM_VERIFY_SERVER_CERT"}

Unset == [set |-> FALSE, val |-> <<>>]

SetTo(v) == [set |-> TRUE, val |-> v]

EnvChoices(name) ==
  CASE name = "ELASTIC_APM_SERVER_URL" ->
         {Unset, SetTo(<<>>), SetTo(<<"h",":","/","/","a">>), SetTo(<<":","a">>)}
    [] name = "ELASTIC_APM_SECRET_TOKEN" -> {Unset, SetTo(<<>>), SetTo(<<"a">>)}
    [] name = "ELASTIC_APM_API_KEY" -> {Unset, SetTo(<<"a">>)}
    [] name = "ELASTIC_APM_VERIFY_SERVER_CERT" -> {Unset, SetTo(<<>>), SetTo(<<"1">>), SetTo(<<"a">>)}

\* one command-line occurrence of a flag, as the flag package hands it to the
\* flag's setter: -name=value (a bare -secure is -secure=true)
Arg(n, v) == [name |-> n, value |-> v]

ArgChoices ==
  {Arg("server", v) : v \in {<<>>, <<"h",":","/","/","b">>, <<"/","/","a",":","b">>}} \cup
  {Arg("secret-token", v) : v \in {<<"b">>}} \cup
  {Arg("api-key", v) : v \in {<<"b">>}} \cup
  {Arg("secure", v) : v \in {TxtTrue, TxtFalse}} \cup
  {Arg("header", v) : v \in {<<"a","=","1">>, <<"a","=","2">>, <<"b","=","1","=","2">>, <<"a">>}} \cup
  {Arg("event-rate", v) : v \in {<<"5","/","2","s">>, <<"1","/","s">>, <<"2","/","0","s">>,
                                 <<"2","/","s","s">>, <<"-","/","s">>, <<"2">>}}

ArgLists == UNION {[1..n -> ArgChoices] : n \in 0..MaxArgs}

\* ---------------------------------------------------------------- state
VARIABLES
  env,       \* the process environment
  args,      \* the command line, one entry per flag occurrence
  pc,        \* "start": before init(); "parse": init() done, flag parsing under way;
             \* "done": flag parsing completed; "exit": flag parsing failed, os.Exit(2)
  argi,      \* number of command-line occurrences parsed successfully
  Config,    \* var Config
  envErr,    \* per seeded flag, the error flag.Set returned in setFlagsFromEnv
  parseErr,  \* the error that ended flag parsing ("nil" if none)
  s,         \* harness: the text handed to RateFlag.Set
  f,         \* harness: the RateFlag
  err,       \* harness: the error Set returned
  out,       \* harness: the text String returned
  hpc        \* harness: "idle" (not in use), "ready", "set" (Set called), "str" (String called)

vars == <<env, args, pc, argi, Config, envErr, parseErr, s, f, err, out, hpc>>

progVars == <<env, args, pc, argi, Config, envErr, parseErr>>

harnessVars == <<s, f, err, out, hpc>>

\* a nil map[string]string, and a made one
NilMap == [nil |-> TRUE, m |-> [k \in {} |-> <<>>]]

MkMap(m) == [nil |-> FALSE, m |-> m]

\* the zero value of var Config (fields no claim reads are left out: IgnoreErrors
\* and the Rewrite toggles, plain booleans with their own flags)
ZeroConfig ==
  [ServerURL |-> NilURL, SecretToken |-> <<>>, APIKey |-> <<>>, Secure |-> FALSE,
   EventRate |-> ZeroRate, Headers |-> NilMap]

\* ---------------------------------------------------------------- the flags' setters
\* the func of flag "server"
ServerFunc(C, server) ==
  IF server # <<>>
  THEN LET r == ParseURL(server)
       IN [C |-> [C EXCEPT !.ServerURL = r.url], err |-> IF r.ok THEN "nil" ELSE "InvalidURL"]
  ELSE [C |-> C, err |-> "nil"]

\* the func of flag "header" making a fresh map at every occurrence
HeaderFunc_Remake(C, h) ==
  LET c == Cut(h, "=")
  IN IF ~c.ok THEN [C |-> C, err |-> "InvalidHeaderFormat"]
     ELSE [C |-> [C EXCEPT !.Headers = MkMap([x \in {c.before} |-> c.after])], err |-> "nil"]

\* the func of flag "header"
HeaderFunc(C, h) ==
  LET c == Cut(h, "=")
      k == c.before
      v == c.after
      made == IF Cardinality(DOMAIN C.Headers.m) = 0 THEN [x \in {} |-> <<>>] ELSE C.Headers.m
  IN IF ~c.ok THEN [C |-> C, err |-> "InvalidHeaderFormat"]
     ELSE [C |-> [C EXCEPT !.Headers =
                    MkMap([x \in DOMAIN made \cup {k} |-> IF x = k THEN v ELSE made[x]])],
           err |-> "nil"]

\* flag's boolValue.Set, behind flag.BoolVar(&Config.Secure, "secure", ...): the
\* parsed value is stored even when parsing fails (false then)
SecureSet(C, v) ==
  LET r == ParseBool(v)
  IN [C |-> [C EXCEPT !.Secure = r.val], err |-> IF r.ok THEN "nil" ELSE "InvalidBool"]

\* flag.Var(&Config.EventRate, "event-rate", ...)
EventRateSet(C, v) ==
  LET r == RateFlagSet(C.EventRate, v)
  IN [C |-> [C EXCEPT !.EventRate = r.f], err |-> r.err]

\* the setter registered by init() under each flag name
FlagSet(C, name, v) ==
  CASE name = "server" -> ServerFunc(C, v)
    [] name = "secret-token" -> [C |-> [C EXCEPT !.SecretToken = v], err |-> "nil"]
    [] name = "api-key" -> [C |-> [C EXCEPT !.APIKey = v], err |-> "nil"]
    [] name = "secure" -> SecureSet(C, v)
    [] name = "header" -> HeaderFunc(C, v)
    [] name = "event-rate" -> EventRateSet(C, v)

\* ---------------------------------------------------------------- environment layering
SeededFlags == {"server", "secret-token", "api-key", "secure"}

\* flagEnvMap of setFlagsFromEnv: value[0] the environment key, value[1] the default
flagEnvMap(k) ==
  CASE k = "server" -> [key |-> "ELASTIC_APM_SERVER_URL", default |-> DefaultServer]
    [] k = "secret-token" -> [key |-> "ELASTIC_APM_SECRET_TOKEN", default |-> <<>>]
    [] k = "api-key" -> [key |-> "ELASTIC_APM_API_KEY", default |-> <<>>]
    [] k = "secure" -> [key |-> "ELASTIC_APM_VERIFY_SERVER_CERT", default |-> TxtFalse]

\* os.Getenv: the empty text for an unset variable
Getenv(e, name) == IF e[name].set THEN e[name].val ELSE <<>>

getEnvOrDefault(e, name, defaultValue) ==
  LET value == Getenv(e, name)
  IN IF value # <<>> THEN value ELSE defaultValue

\* setFlagsFromEnv: flag.Set(k, getEnvOrDefault(...)) for the flags of flagEnvMap
\* in the map's iteration order `order`; the error of each call is dropped by the
\* code and kept here in errs
RECURSIVE setFlagsFromEnvLoop(_, _, _, _)
setFlagsFromEnvLoop(C, e, order, errs) ==
  IF order = <<>> THEN [C |-> C, errs |-> errs]
  ELSE LET k == Head(order)
           r == FlagSet(C, k, getEnvOrDefault(e, flagEnvMap(k).key, flagEnvMap(k).default))
       IN setFlagsFromEnvLoop(r.C, e, Tail(order), [errs EXCEPT ![k] = r.err])

setFlagsFromEnv(C, e, order) ==
  setFlagsFromEnvLoop(C, e, order, [k \in SeededFlags |-> "nil"])

\* Go leaves the iteration order of flagEnvMap open; each flag's setter writes a
\* field of its own and an error entry of its own, so every order gives the same
\* result and one order stands for all
SeedOrder == <<"server", "secret-token", "api-key", "secure">>

\* ---------------------------------------------------------------- the program
ProgInit ==
  /\ env \in {e \in [EnvNames -> UNION {EnvChoices(n) : n \in EnvNames}] :
                \A n \in EnvNames : e[n] \in EnvChoices(n)}
  /\ args \in ArgLists
  /\ pc = "start"
  /\ argi = 0
  /\ Config = ZeroConfig
  /\ envErr = [k \in SeededFlags |-> "nil"]
  /\ parseErr = "nil"

HarnessIdle == s = <<>> /\ f = ZeroRate /\ err = "nil" /\ out = <<>> /\ hpc = "idle"

Init == ProgInit /\ HarnessIdle

\* func init(): registers the flags and seeds four of them from the environment
RunInit ==
  /\ pc = "start"
  /\ LET r == setFlagsFromEnv(Config, env, SeedOrder)
     IN Config' = r.C /\ envErr' = r.errs
  /\ pc' = "parse"
  /\ UNCHANGED <<env, args, argi, parseErr, harnessVars>>

\* flag.Parse, one occurrence: the flag's setter runs; an error ends the process
\* (flag.CommandLine is ExitOnError)
ParseArg ==
  /\ pc = "parse"
  /\ argi < Len(args)
  /\ LET a == args[argi + 1]
         r == FlagSet(Config, a.name, a.value)
     IN /\ Config' = r.C
        /\ parseErr' = r.err
        /\ IF r.err = "nil"
           THEN argi' = argi + 1 /\ pc' = pc
           ELSE argi' = argi /\ pc' = "exit"
  /\ UNCHANGED <<env, args, envErr, harnessVars>>

\* flag.Parse returns: every occurrence was parsed
ParseDone ==
  /\ pc = "parse"
  /\ argi = Len(args)
  /\ pc' = "done"
  /\ UNCHANGED <<env, args, argi, Config, envErr, parseErr, harnessVars>>

Next == RunInit \/ ParseArg \/ ParseDone

Spec == Init /\ [][Next]_vars

\* ---------------------------------------------------------------- RateFlag on its own
ProgIdle ==
  /\ env = [n \in EnvNames |-> Unset]
  /\ args = <<>>
  /\ pc = "idle"
  /\ argi = 0
  /\ Config = ZeroConfig
  /\ envErr = [k \in SeededFlags |-> "nil"]
  /\ parseErr = "nil"

RateInit ==
  /\ ProgIdle
  /\ s \in RateInputs
  /\ f = ZeroRate
  /\ err = "nil"
  /\ out = <<>>
  /\ hpc = "ready"

\* f.Set(s)
CallSet ==
  /\ hpc = "ready"
  /\ LET r == RateFlagSet(f, s)
     IN f' = r.f /\ err' = r.err
  /\ hpc' = "set"
  /\ UNCHANGED <<s, out, progVars>>

\* f.String()
CallString ==
  /\ hpc = "set"
  /\ out' = RateFlagString(f)
  /\ hpc' = "str"
  /\ UNCHANGED <<s, f, err, progVars>>

RateNext == CallSet \/ CallString

RateSpec == RateInit /\ [][RateNext]_vars

\* ---------------------------------------------------------------- notions the claims use
\* position of the first c in t, 0 when there is none
FirstIndex(t, c) ==
  IF \A i \in 1..Len(t) : t[i] # c THEN 0
  ELSE CHOOSE i \in 1..Len(t) : t[i] = c /\ \A j \in 1..Len(t) : t[j] = c => i <= j

\* the texts left and right of the first '/' of a rate text that has one
BurstText(t) == Take(t, FirstIndex(t, "/") - 1)

IntervalText(t) == Drop(t, FirstIndex(t, "/"))

AllDigits(t) == t # <<>> /\ \A i \in 1..Len(t) : IsDigit(t[i])

\* command line: whether a flag occurs, and the value of its last occurrence
Supplied(name) == \E i \in 1..Len(args) : args[i].name = name

LastValue(name) ==
  LET i == CHOOSE i \in 1..Len(args) :
             args[i].name = name /\ \A j \in 1..Len(args) : args[j].name = name => j <= i
  IN args[i].value

\* the text precedence selects for a seeded flag: command line, else a set and
\* non-empty environment variable, else the built-in default
Selected(k) ==
  LET e == env[flagEnvMap(k).key]
  IN IF Supplied(k) THEN LastValue(k)
     ELSE IF e.set /\ e.val # <<>> THEN e.val
     ELSE flagEnvMap(k).default

\* ---------------------------------------------------------------- claims on RateFlag
\* C4: for every burst >= 0 and every interval text d that is by itself a
\* parseable, positive duration, Set("{burst}/{d}") succeeds and stores
\* Burst = burst and Interval = the duration d denotes.
C4_ParseableIntervalStored ==
  (hpc # "ready" /\ FirstIndex(s, "/") > 0 /\ AllDigits(BurstText(s))
     /\ ParseDuration(IntervalText(s)).ok /\ ParseDuration(IntervalText(s)).val > 0)
  => (err = "nil" /\ f.Burst = DecVal(BurstText(s))
        /\ f.Interval = ParseDuration(IntervalText(s)).val)

\* C5: Set("{b}/{u}"), u starting with a non-digit, has the outcome of
\* Set("{b}/1{u}"): the same error kind and the same Burst and Interval; and
\* "10/s" gives Burst 10 and Interval one second.
C5_ShorthandEquivalence ==
  hpc # "ready" =>
    /\ \A i \in 1..(Len(s) - 1) :
         (s[i] = "/" /\ ~IsDigit(s[i + 1])) =>
           LET r == RateFlagSet(ZeroRate, Take(s, i) \o <<"1">> \o Drop(s, i))
           IN r.err = err /\ r.f = f
    /\ s = <<"1", "0", "/", "s">> => (err = "nil" /\ f = [Burst |-> 10, Interval |-> 1000])

C5_Witness ==
  hpc = "set" /\ s = <<"1", "0", "/", "s">> /\ err = "nil" /\ f = [Burst |-> 10, Interval |-> 1000]

\* C6: a rate whose interval denotes a zero or negative duration is rejected
\* with the NonPositiveInterval error kind.
C6_NonPositiveRejected ==
  (hpc # "ready" /\ FirstIndex(s, "/") > 0 /\ Atoi(BurstText(s)).ok
     /\ ParseDuration(IntervalText(s)).ok /\ ParseDuration(IntervalText(s)).val <= 0)
  => err = "NonPositiveInterval"

\* C7: Set splits at the first '/' only; it fails with InvalidFormat exactly when
\* the input has no '/', or nothing before the first '/', or nothing after it.
C7_InvalidFormatExactly ==
  hpc # "ready" =>
    ((err = "InvalidFormat") <=>
       \/ \A i \in 1..Len(s) : s[i] # "/"
       \/ (s # <<>> /\ s[1] = "/")
       \/ (s # <<>> /\ s[Len(s)] = "/" /\ \A i \in 1..(Len(s) - 1) : s[i] # "/"))

C7_Witness ==
  hpc = "set" /\ s = <<"1", "/", "/">> /\ err = "InvalidInterval"

\* C8 as stated: String renders Burst, '/', the interval's duration text
\* ("5/2s" for Burst 5, Interval 2s), and the bare shorthand "/s" is accepted by
\* Set, after which String returns "1/1s".
C8_BareShorthandAccepted ==
  hpc = "str" =>
    /\ s = <<"5", "/", "2", "s">> => (err = "nil" /\ out = <<"5", "/", "2", "s">>)
    /\ s = <<"/", "s">> => (err = "nil" /\ out = <<"1", "/", "1", "s">>)

\* C8 amended: String renders Burst, '/', the interval's duration text ("5/2s"
\* for Burst 5, Interval 2s); the shorthand "1/s" is accepted by Set with the
\* result of the explicit "1/1s", after which String returns "1/1s" rather than
\* "1/s"; the bare "/s", with no burst, is rejected with InvalidFormat.
C8_ShorthandRoundTripLossy ==
  hpc = "str" =>
    /\ s = <<"5", "/", "2", "s">> =>
         (err = "nil" /\ f = [Burst |-> 5, Interval |-> 2000] /\ out = <<"5", "/", "2", "s">>)
    /\ s = <<"1", "/", "s">> =>
         (err = "nil" /\ f = RateFlagSet(ZeroRate, <<"1", "/", "1", "s">>).f
            /\ out = <<"1", "/", "1", "s">> /\ out # s)
    /\ s = <<"/", "s">> => (err = "InvalidFormat" /\ f = ZeroRate)

C8_Witness ==
  hpc = "str" /\ s = <<"1", "/", "s">> /\ err = "nil" /\ out = <<"1", "/", "1", "s">>

\* ---------------------------------------------------------------- claims on the resolver
\* C1: after env seeding and flag parsing, each of server, secret-token, api-key
\* and secure holds the command-line value if the flag was supplied, else the
\* environment value if set and non-empty, else the built-in default.
C1_Precedence ==
  pc = "done" =>
    /\ ParseURL(Selected("server")).ok
    /\ Config.ServerURL = ParseURL(Selected("server")).url
    /\ Config.SecretToken = Selected("secret-token")
    /\ Config.APIKey = Selected("api-key")
    /\ ParseBool(Selected("secure")).ok
    /\ Config.Secure = ParseBool(Selected("secure")).val

\* C2: initialization never completes although a flag setter returned an error,
\* whether the value came from the command line or from the environment.
C2_NoErrorSwallowed ==
  pc = "done" => (parseErr = "nil" /\ \A k \in SeededFlags : envErr[k] = "nil")

\* C3: a Set call that returns an error leaves Burst and Interval as they were
\* before the call, whatever earlier calls stored.
C3_NoPartialMutation ==
  [][(pc = "parse" /\ argi < Len(args) /\ args[argi + 1].name = "event-rate"
        /\ parseErr' # "nil")
     => Config'.EventRate = Config.EventRate]_vars

C3_Witness ==
  /\ pc = "exit" /\ parseErr = "NonPositiveInterval"
  /\ args[argi + 1] = Arg("event-rate", <<"2", "/", "0", "s">>)
  /\ Config.EventRate = [Burst |-> 5, Interval |-> 2000]

\* C9: after the header occurrences parsed so far, the header map has exactly
\* the keys seen, each with the text after the first '=' of its last occurrence;
\* it is nil as long as no occurrence was parsed successfully.
C9_HeadersLastWins ==
  LET H == {i \in 1..argi : args[i].name = "header"}
      KeyOf(t) == Take(t, FirstIndex(t, "=") - 1)
      ValOf(t) == Drop(t, FirstIndex(t, "="))
      Last(k) == CHOOSE i \in H : KeyOf(args[i].value) = k
                                   /\ \A j \in H : KeyOf(args[j].value) = k => j <= i
  IN IF H = {} THEN Config.Headers = NilMap
     ELSE /\ ~Config.Headers.nil
          /\ DOMAIN Config.Headers.m = {KeyOf(args[i].value) : i \in H}
          /\ \A k \in DOMAIN Config.Headers.m : Config.Headers.m[k] = ValOf(args[Last(k)].value)

C9_Witness ==
  /\ pc = "done"
  /\ args = <<Arg("header", <<"a", "=", "1">>), Arg("header", <<"a", "=", "2">>)>>
  /\ DOMAIN Config.Headers.m = {<<"a">>}
  /\ Config.Headers.m[<<"a">>] = <<"2">>

\* C10: once flag parsing has completed the rate's Interval is strictly
\* positive, and without an event-rate flag the rate is 0/s: Burst 0, Interval
\* one second.
C10_IntervalPositive ==
  pc = "done" =>
    /\ Config.EventRate.Interval > 0
    /\ ~Supplied("event-rate") => Config.EventRate = [Burst |-> 0, Interval |-> 1000]

====
